---- MODULE Spec2Model ----
(***************************************************************************)
(* Branch and bound over LP relaxations (src/branch_and_bound.py).         *)
(*                                                                         *)
(* Numbers.  Variable values, bounds and the tolerance are fixed-point     *)
(* numbers in quarters: One = 4 stands for 1.0, Half = 2 for 0.5.          *)
(* Objective values are in the same unit (cost * value + One * offset).    *)
(* float('inf') is Inf, larger than every objective of the instances.      *)
(*                                                                         *)
(* Instances.  The root model is a minimisation problem over NumVars       *)
(* variables with bounds [0, 1], a cost per variable, a constant in the    *)
(* objective and rows  sum(x[i] : i \in S) >= rhs  or  <= rhs.  The rows   *)
(* are of kinds whose LP vertices are half-integral, so the relaxation     *)
(* oracle is computed exactly on the grid {0, 1/2, 1}.                     *)
(*                                                                         *)
(* Object identity.  id(obj) is a positive integer that no other live      *)
(* object has; the id of a freed object may be given to a later one.       *)
(* Time.  clock is time.time() - start_time at its latest reading; it      *)
(* never decreases and may stay the same between two readings.             *)
(***************************************************************************)
EXTENDS Integers, Sequences, FiniteSets, TLC

NumVars == 3
MaxCost == 2
MaxTime == 2
MaxReuse == 1

One == 4
Inf == 999
None == 0

Half == One \div 2
Vars == 1..NumVars
RootId == 1

VARIABLES
  inst,             \* the root model: [kind, cost, offset]
  oracle,           \* how optimize() behaves in this run: "any" (any optimal basic
                    \* solution, or a time-out), or a deterministic rule
  tolerance,        \* parameter tolerance
  time_limit,       \* parameter time_limit
  stack,            \* list of (parent id, model); the end is the top.  An entry
                    \* also carries pobj (history): the relaxation objective of
                    \* the node that pushed it
  best_solution,    \* <<>> for None, else <<copy of the incumbent's model>>
  best_objective,
  nodes_explored,
  active_nodes,     \* dict id -> relaxation objective
  active_int_nodes, \* dict id -> objective of an accepted integral node
  current_model,    \* id of the object the local current_model refers to (0: unbound)
  model_right,      \* id of the object the local model_right refers to (0: unbound)
  model_left,       \* id of the object the local model_left refers to (0: unbound)
  clock,            \* elapsed time at the latest reading of time.time()
  pc,               \* "loop", "returned", "raised" ("idle": the driver is not running)
  result,           \* the returned tuple
  last,             \* history: what the latest loop iteration did
  timedOut,         \* history: some oracle call ended with status TIME_LIMIT
  nextNode,         \* history: number of the next search node to be created
  reuses,           \* history: number of copies that got the id of a freed object
  cbv               \* a call of choose_branching_variable on its own: [x, tol, res, done]

vars == <<inst, oracle, tolerance, time_limit, stack, best_solution, best_objective,
          nodes_explored, active_nodes, active_int_nodes, current_model,
          model_right, model_left, clock, pc, result, last, timedOut, nextNode, reuses, cbv>>

----------------------------------------------------------------------------
(* Arithmetic helpers *)

Max(a, b) == IF a >= b THEN a ELSE b
Min(a, b) == IF a <= b THEN a ELSE b
Abs(a) == IF a >= 0 THEN a ELSE -a

RECURSIVE SumOver(_, _)
SumOver(S, f) ==
  IF S = {} THEN 0
  ELSE LET i == CHOOSE j \in S : TRUE IN f[i] + SumOver(S \ {i}, f)

\* min(values, default=d) of Python, over the values of a dict
MinOf(S, d) == IF S = {} THEN d ELSE CHOOSE v \in S : \A w \in S : v <= w

Values(f) == {f[k] : k \in DOMAIN f}

\* int(v) of Python for a value v >= 0: truncation to a whole number
IntPart(v) == (v \div One) * One

----------------------------------------------------------------------------
(* The models and the relaxation oracle (gurobipy: Model.optimize) *)

Succ(i) == (i % NumVars) + 1

CoverRows == {[S |-> {i, Succ(i)}, ge |-> TRUE, rhs |-> One] : i \in Vars}
PackRows == {[S |-> {i, Succ(i)}, ge |-> FALSE, rhs |-> One] : i \in Vars}
CardRows == {[S |-> {1, 2, 3}, ge |-> TRUE, rhs |-> One + Half]}
LeastRows == {[S |-> {1, 2, 3}, ge |-> TRUE, rhs |-> Half]}

Kinds == {"cover", "parity", "card", "least", "free"}

Rows(kind) ==
  CASE kind = "cover" -> CoverRows
    [] kind = "parity" -> CoverRows \cup PackRows
    [] kind = "card" -> CardRows
    [] kind = "least" -> LeastRows
    [] OTHER -> {}

Instances ==
  [kind : Kinds, cost : [Vars -> 1..MaxCost], offset : {-MaxCost, 0}]

\* x satisfies the rows of an instance of this kind and the bounds lb, ub
Feasible(x, kind, lb, ub) ==
  /\ \A i \in Vars : lb[i] <= x[i] /\ x[i] <= ub[i]
  /\ \A r \in Rows(kind) :
       IF r.ge THEN SumOver(r.S, x) >= r.rhs ELSE SumOver(r.S, x) <= r.rhs

ObjOf(x) == SumOver(Vars, [i \in Vars |-> inst.cost[i] * x[i]]) + One * inst.offset

Grid == [Vars -> {0, Half, One}]
Directions == [Vars -> {-1, 0, 1}] \ {[i \in Vars |-> 0]}
Bounds == [Vars -> {0, One}]

\* x is a vertex of the polytope: it is feasible and not the midpoint of two
\* feasible points
IsVertex(x, kind, lb, ub) ==
  /\ Feasible(x, kind, lb, ub)
  /\ ~ \E d \in Directions :
         /\ Feasible([i \in Vars |-> x[i] + d[i]], kind, lb, ub)
         /\ Feasible([i \in Vars |-> x[i] - d[i]], kind, lb, ub)

\* The basic feasible solutions of every model the search can build
VertexTable ==
  [kind \in Kinds, lb \in Bounds, ub \in Bounds |->
     {x \in Grid : IsVertex(x, kind, lb, ub)}] @@ <<>>  \* tabulated once

\* The outcomes of optimize() that end within the budget: INFEASIBLE, or OPTIMAL
\* with the optimal value and one optimal basic solution
Optimize(m) ==
  LET V == VertexTable[inst.kind, m.lb, m.ub]
      v == MinOf({ObjOf(x) : x \in V}, Inf)
  IN IF V = {}
       THEN {[status |-> "INFEASIBLE", objVal |-> Inf, x |-> [i \in Vars |-> 0]]}
       ELSE {[status |-> "OPTIMAL", objVal |-> v, x |-> x] :
               x \in {y \in V : ObjOf(y) = v}}

\* The outcomes of optimize() that end with the budget used up: status
\* TIME_LIMIT, the model holding no solution or some basic solution reached so far
OptimizeStopped(m) ==
  {[status |-> "TIME_LIMIT", objVal |-> Inf, x |-> [i \in Vars |-> 0]]}
  \cup {[status |-> "TIME_LIMIT", objVal |-> ObjOf(x), x |-> x] :
          x \in VertexTable[inst.kind, m.lb, m.ub]}

\* x comes before y in lexicographic order
LexLess(x, y) ==
  \E i \in Vars : x[i] < y[i] /\ \A j \in 1..(i - 1) : x[j] = y[j]

OracleModes == {"any", "first", "last"}

\* A deterministic oracle: it never times out and returns, of the optimal basic
\* solutions, the first (or the last) in lexicographic order
Pick(R, mode) ==
  CHOOSE r \in R :
    \A q \in R \ {r} : IF mode = "first" THEN LexLess(r.x, q.x) ELSE LexLess(q.x, r.x)

\* The outcomes of one call of optimize() on model m in this run
Results(m) ==
  IF oracle = "any" THEN Optimize(m) \cup OptimizeStopped(m)
  ELSE {Pick(Optimize(m), oracle)}

\* The integral points of the root model and the optimal integral objective
RootModel ==
  [id |-> RootId, lb |-> [i \in Vars |-> 0], ub |-> [i \in Vars |-> One],
   node |-> 1, parent |-> 0, depth |-> 0, var |-> None, side |-> "root"]
IntegralPoints ==
  {x \in [Vars -> {0, One}] : Feasible(x, inst.kind, RootModel.lb, RootModel.ub)}
IntegralOpt == MinOf({ObjOf(x) : x \in IntegralPoints}, Inf)

----------------------------------------------------------------------------
(* choose_branching_variable *)

\* tolerance < var.x < 1 - tolerance
IsFractional(v, tol) == tol < v /\ v < One - tol

\* The loop over model.getVars(), from variable i on: the first fractional
\* variable is returned at once; None when the loop ends without one
RECURSIVE ScanFrom(_, _, _)
ScanFrom(i, x, tol) ==
  IF i > NumVars THEN None
  ELSE IF IsFractional(x[i], tol) THEN i
  ELSE ScanFrom(i + 1, x, tol)

\* Mutant: the fractional variable closest to 0.5, as the docstring announces
ChooseClosestToHalf(x, tol) ==
  LET F == {i \in Vars : IsFractional(x[i], tol)}
  IN IF F = {} THEN None
     ELSE CHOOSE i \in F :
            /\ \A j \in F : Abs(x[i] - Half) <= Abs(x[j] - Half)
            /\ \A j \in F : Abs(x[j] - Half) = Abs(x[i] - Half) => i <= j

\* Mutant: every solution passes for integral
ChooseNothing(x, tol) == None

choose_branching_variable(x, tol) == ScanFrom(1, x, tol)

----------------------------------------------------------------------------
(* branch_and_bound *)

\* Mutant: the entry whose model has the greatest id is read
TopGreatestId ==
  stack[CHOOSE i \in DOMAIN stack :
          \A j \in DOMAIN stack : stack[i].model.id >= stack[j].model.id]

Top == stack[Len(stack)]

\* Mutant: the entry read by stack.pop() stays on the stack
PoppedKeepsTop == stack

\* The stack after stack.pop()
Popped == SubSeq(stack, 1, Len(stack) - 1)

Tags(s) == {s[i].tag : i \in DOMAIN s}
ModelIds(s) == {s[i].model.id : i \in DOMAIN s}

\* Mutant: the table is left unfiltered
PurgeNothing(an, s) == an

\* Mutant: an entry is kept when its id is the id of a model on the stack
PurgeByModelId(an, s) == [k \in (DOMAIN an) \cap ModelIds(s) |-> an[k]]

\* {node_id: obj for node_id, obj in active_nodes.items()
\*           if any(node_id == stack_id for stack_id, _ in stack)}
Purge(an, s) == [k \in (DOMAIN an) \cap Tags(s) |-> an[k]]

\* d[key] = value
Put(d, key, value) == [k \in (DOMAIN d) \cup {key} |-> IF k = key THEN value ELSE d[k]]

\* Mutant: the loop still runs at elapsed time = time_limit
LoopGuardInclusive(t) == t <= time_limit

\* Mutant: the loop condition does not look at the time
LoopGuardNoDeadline(t) == TRUE

\* time.time() - start_time < time_limit
LoopGuard(t) == t < time_limit

\* Mutant: the budget is not cut off at 0
RemainingTimeUnclamped(t) == time_limit - t

\* max(time_limit - (time.time() - start_time), 0)
RemainingTime(t) == Max(time_limit - t, 0)

\* Mutant: only INFEASIBLE is discarded
NotOptimalInfeasibleOnly(status) == status = "INFEASIBLE"

\* current_model.status != GRB.OPTIMAL
NotOptimal(status) == status # "OPTIMAL"

\* model_right = current_model.copy(), as object rid, with
\* model_right.getVarByName(var_name).lb = int(fractional_var.x) + 1
RightChild(cur, fv, x, rid) ==
  [id |-> rid, lb |-> [cur.lb EXCEPT ![fv] = IntPart(x[fv]) + One], ub |-> cur.ub,
   node |-> nextNode, parent |-> cur.node, depth |-> cur.depth + 1,
   var |-> fv, side |-> "right"]

\* Mutant: the left child tightens the lower bound, like the right child
LeftChildLowerBound(cur, fv, x, lid) ==
  [id |-> lid, lb |-> [cur.lb EXCEPT ![fv] = IntPart(x[fv]) + One], ub |-> cur.ub,
   node |-> nextNode + 1, parent |-> cur.node, depth |-> cur.depth + 1,
   var |-> fv, side |-> "left"]

\* Mutant: the left child is cut from the root's bounds, not from its parent's
LeftChildFromRoot(cur, fv, x, lid) ==
  [id |-> lid, lb |-> cur.lb, ub |-> [i \in Vars |-> IF i = fv THEN IntPart(x[fv]) ELSE One],
   node |-> nextNode + 1, parent |-> cur.node, depth |-> cur.depth + 1,
   var |-> fv, side |-> "left"]

\* Mutant: the left child keeps the parent's bounds
LeftChildNoCut(cur, fv, x, lid) ==
  [id |-> lid, lb |-> cur.lb, ub |-> cur.ub,
   node |-> nextNode + 1, parent |-> cur.node, depth |-> cur.depth + 1,
   var |-> fv, side |-> "left"]

\* Mutant: model_left is the object model_right was made of, so it carries the
\* right child's bound as well
LeftChildOnSharedModel(cur, fv, x, lid) ==
  [id |-> lid, lb |-> [cur.lb EXCEPT ![fv] = IntPart(x[fv]) + One],
   ub |-> [cur.ub EXCEPT ![fv] = IntPart(x[fv])],
   node |-> nextNode + 1, parent |-> cur.node, depth |-> cur.depth + 1,
   var |-> fv, side |-> "left"]

\* model_left = current_model.copy(), as object lid, with
\* model_left.getVarByName(var_name).ub = int(fractional_var.x)
LeftChild(cur, fv, x, lid) ==
  [id |-> lid, lb |-> cur.lb, ub |-> [cur.ub EXCEPT ![fv] = IntPart(x[fv])],
   node |-> nextNode + 1, parent |-> cur.node, depth |-> cur.depth + 1,
   var |-> fv, side |-> "left"]

\* Mutant: the left child is pushed first
PushLeftFirst(rest, tag, obj, right, left) ==
  rest \o <<[tag |-> tag, model |-> left, pobj |-> obj],
            [tag |-> tag, model |-> right, pobj |-> obj]>>

\* stack.append((current_id, model_right)) and then
\* stack.append((current_id, model_left))
Push(rest, tag, obj, right, left) ==
  rest \o <<[tag |-> tag, model |-> right, pobj |-> obj],
            [tag |-> tag, model |-> left, pobj |-> obj]>>

\* Mutant: ties with the incumbent are not pruned
PrunesStrict(obj_val, best) == obj_val > best

\* obj_val >= best_objective
Prunes(obj_val, best) == obj_val >= best

\* obj_val < best_objective
Improves(obj_val, best) == obj_val < best

\* The ids Model.copy() can return: an id no live object has.  Ids that occur in
\* no table and in no stack tag are interchangeable, so one of them (the
\* least) stands for them all; the others are the ids of freed objects that
\* still occur in a table or as a tag (a run is followed up to MaxReuse such
\* reuses).
FreshId(taken) == CHOOSE n \in 1..(Cardinality(taken) + 1) :
                    n \notin taken /\ \A k \in 1..(n - 1) : k \in taken
NewIds(live, known) ==
  {FreshId(live \cup known)} \cup (IF reuses < MaxReuse THEN known \ live ELSE {})

\* optimize() called at elapsed time t2 and returning at t3 ends with status
\* TIME_LIMIT only when it used the whole budget it was given
InTime(status, t2, t3) == status = "TIME_LIMIT" => t3 - t2 >= RemainingTime(t2)

\* Mutant: the integral leaves are left out of the bound
BestBoundFrontierOnly(ain, an) == MinOf(Values(an), Inf)

\* Mutant: the frontier table is left out of the bound
BestBoundLeavesOnly(ain, an) == MinOf(Values(ain), Inf)

\* min(min(active_int_nodes.values(), default=best_bound),
\*     min(active_nodes.values(), default=best_bound)), best_bound being inf
BestBound(ain, an) == Min(MinOf(Values(ain), Inf), MinOf(Values(an), Inf))

GapInf == <<1, 0>>
GapZero == <<0, 1>>
\* Mutant: the equality test comes before the test for no incumbent
GapEqualFirst(bo, bb) ==
  IF bo = bb THEN <<0, 1>>
  ELSE IF bo = Inf THEN <<1, 0>>
  ELSE <<(bo - bb) * 100, Abs(bo)>>

\* The gap as a fraction <<numerator, denominator>>; the caller raises
\* ZeroDivisionError when the denominator of the last case is 0
Gap(bo, bb) ==
  IF bo = Inf THEN GapInf
  ELSE IF bo = bb THEN GapZero
  ELSE <<(bo - bb) * 100, Abs(bo)>>

NoResult == [best_bound |-> Inf, best_objective |-> Inf, time_taken |-> 0,
             gap |-> GapInf, nodes_explored |-> 0]
NoLast == [kind |-> "none", status |-> "none", obj |-> Inf, node |-> 0, id |-> 0,
           frac |-> None, before |-> Inf, popAt |-> 0, budget |-> 0, pobj |-> -Inf]
IdleCbv == [x |-> [i \in Vars |-> 0], tol |-> 0, res |-> None, done |-> FALSE]

\* The callers pass 1e-6 and 1e-10, which are below the resolution of the grid
Tolerances == {0}
TimeLimits == 0..(MaxTime - 1)

\* The state at line 33, for a run whose oracle behaves in one of the given ways
InitWith(modes) ==
  /\ inst \in Instances
  /\ oracle \in modes
  /\ tolerance \in Tolerances
  /\ time_limit \in TimeLimits
  /\ stack = <<[tag |-> RootId, model |-> RootModel, pobj |-> -Inf]>>
  /\ best_solution = <<>>
  /\ best_objective = Inf
  /\ nodes_explored = 0
  /\ active_nodes = <<>>
  /\ active_int_nodes = <<>>
  /\ current_model = 0
  /\ model_right = 0
  /\ model_left = 0
  /\ clock = 0
  /\ pc = "loop"
  /\ result = NoResult
  /\ last = NoLast
  /\ timedOut = FALSE
  /\ nextNode = 2
  /\ reuses = 0
  /\ cbv = IdleCbv

Init == InitWith({"any"})

\* One iteration of the while loop: lines 34-81
Iterate ==
  /\ pc = "loop"
  /\ stack # <<>>
  /\ \E r \in Results(Top.model) :
     \E t1 \in clock..MaxTime : \E t2 \in t1..MaxTime : \E t3 \in t2..MaxTime :
       /\ LoopGuard(t1)
       /\ InTime(r.status, t2, t3)
       /\ LET cur == Top.model
              rest == Popped
          IN
               LET obj_val == r.objVal
                   an1 == Put(active_nodes, cur.id, obj_val)
                   fv == choose_branching_variable(r.x, tolerance)
                   known == (DOMAIN an1) \cup (DOMAIN active_int_nodes) \cup Tags(rest)
                   held == {RootId, cur.id} \cup ModelIds(rest)
                   note(kind) ==
                     [kind |-> kind, status |-> r.status,
                      obj |-> IF r.status = "OPTIMAL" THEN obj_val ELSE Inf,
                      node |-> cur.node, id |-> cur.id,
                      frac |-> IF kind = "branched" THEN fv ELSE None,
                      before |-> best_objective, popAt |-> t1,
                      budget |-> RemainingTime(t2), pobj |-> Top.pobj]
               IN /\ current_model' = cur.id
                  /\ nodes_explored' = nodes_explored + 1
                  /\ clock' = t3
                  /\ timedOut' = (timedOut \/ r.status = "TIME_LIMIT")
                  /\ IF NotOptimal(r.status)
                       THEN /\ stack' = rest
                            /\ active_nodes' = Purge(active_nodes, rest)
                            /\ last' = note("notopt")
                            /\ UNCHANGED <<best_solution, best_objective, active_int_nodes,
                                           model_right, model_left, nextNode, reuses>>
                     ELSE IF Prunes(obj_val, best_objective)
                       THEN /\ stack' = rest
                            /\ active_nodes' = Purge(active_nodes, rest)
                            /\ last' = note("pruned")
                            /\ UNCHANGED <<best_solution, best_objective, active_int_nodes,
                                           model_right, model_left, nextNode, reuses>>
                     ELSE IF fv = None
                       THEN /\ stack' = rest
                            /\ IF Improves(obj_val, best_objective)
                                 THEN /\ best_solution' = <<[lb |-> cur.lb, ub |-> cur.ub]>>
                                      /\ best_objective' = obj_val
                                      /\ active_int_nodes' = Put(active_int_nodes, cur.id, obj_val)
                                 ELSE UNCHANGED <<best_solution, best_objective, active_int_nodes>>
                            /\ active_nodes' = Purge(an1, rest)
                            /\ last' = note("integral")
                            /\ UNCHANGED <<model_right, model_left, nextNode, reuses>>
                     ELSE \E rid \in NewIds(held \cup ({model_right, model_left} \ {0}), known) :
                          \E lid \in NewIds(held \cup {rid} \cup ({model_left} \ {0}), known) :
                            LET right == RightChild(cur, fv, r.x, rid)
                                left == LeftChild(cur, fv, r.x, lid)
                                pushed == Push(rest, cur.id, obj_val, right, left)
                            IN /\ stack' = pushed
                               /\ model_right' = rid
                               /\ model_left' = lid
                               /\ nextNode' = nextNode + 2
                               /\ reuses' = reuses + Cardinality({rid, lid} \cap known)
                               /\ active_nodes' = Purge(an1, pushed)
                               /\ last' = note("branched")
                               /\ UNCHANGED <<best_solution, best_objective, active_int_nodes>>
  /\ UNCHANGED <<inst, oracle, tolerance, time_limit, pc, result, cbv>>

\* The loop exit and lines 83-93: the loop condition fails at elapsed time t1
\* (the stack is empty, or the time is over) and the tuple is computed
Finish ==
  /\ pc = "loop"
  /\ \E t1 \in clock..MaxTime : \E t4 \in t1..MaxTime :
       /\ stack = <<>> \/ ~LoopGuard(t1)
       /\ LET bb == BestBound(active_int_nodes, active_nodes)
              gap == Gap(best_objective, bb)
          IN /\ clock' = t4
             /\ IF gap[2] = 0 /\ gap # GapInf
                  THEN /\ pc' = "raised"
                       /\ result' = result
                  ELSE /\ pc' = "returned"
                       /\ result' = [best_bound |-> bb, best_objective |-> best_objective,
                                     time_taken |-> t4, gap |-> gap,
                                     nodes_explored |-> nodes_explored]
  /\ UNCHANGED <<inst, oracle, tolerance, time_limit, stack, best_solution, best_objective,
                 nodes_explored, active_nodes, active_int_nodes, current_model,
                 model_right, model_left, last, timedOut, nextNode, reuses, cbv>>

Next == Iterate \/ Finish

Spec == Init /\ [][Next]_vars

\* The runs under a deterministic oracle
InitDet == InitWith(OracleModes \ {"any"})

SpecDet == InitDet /\ [][Next]_vars

----------------------------------------------------------------------------
(* choose_branching_variable called on its own, on any vector of values *)

XVals == (-1)..(One + 1)
TolVals == 0..One

InitCBV ==
  /\ cbv \in [x : [Vars -> XVals], tol : TolVals, res : {None}, done : {FALSE}]
  /\ inst = [kind |-> "free", cost |-> [i \in Vars |-> 1], offset |-> 0]
  /\ oracle = "any"
  /\ tolerance = 0
  /\ time_limit = 0
  /\ stack = <<>>
  /\ best_solution = <<>>
  /\ best_objective = Inf
  /\ nodes_explored = 0
  /\ active_nodes = <<>>
  /\ active_int_nodes = <<>>
  /\ current_model = 0
  /\ model_right = 0
  /\ model_left = 0
  /\ clock = 0
  /\ pc = "idle"
  /\ result = NoResult
  /\ last = NoLast
  /\ timedOut = FALSE
  /\ nextNode = 2
  /\ reuses = 0

Choose ==
  /\ pc = "idle"
  /\ ~cbv.done
  /\ cbv' = [cbv EXCEPT !.res = choose_branching_variable(cbv.x, cbv.tol), !.done = TRUE]
  /\ UNCHANGED <<inst, oracle, tolerance, time_limit, stack, best_solution, best_objective,
                 nodes_explored, active_nodes, active_int_nodes, current_model,
                 model_right, model_left, clock, pc, result, last, timedOut,
                 nextNode, reuses>>

NextCBV == Choose

SpecCBV == InitCBV /\ [][NextCBV]_vars

----------------------------------------------------------------------------
(* Properties *)

Returned == pc = "returned"
\* The step is a loop iteration: a node was popped and solved
Iterated == nodes_explored' = nodes_explored + 1
\* Every entry of table t is an entry of table u
SubTable(t, u) == (DOMAIN t) \subseteq (DOMAIN u) /\ \A k \in DOMAIN t : t[k] = u[k]

\* C1: when no oracle call timed out, the loop ended with the stack empty and the
\* root model has an integral feasible solution, the returned bestObjective is
\* the least objective of the integral feasible solutions of the root model.
C1_OptimalOnExhaustion ==
  (Returned /\ stack = <<>> /\ ~timedOut /\ IntegralPoints # {})
    => result.best_objective = IntegralOpt

\* C1 witness: an exhaustive run of at least five nodes that pruned a node tied
\* with the incumbent and returned the optimum.
C1_Witness ==
  /\ Returned /\ stack = <<>> /\ ~timedOut /\ IntegralPoints # {}
  /\ nodes_explored >= 5
  /\ last.kind = "pruned" /\ last.obj = best_objective
  /\ result.best_objective = IntegralOpt

\* C2: the returned bestBound, when one was recorded, does not exceed the
\* objective of any integral feasible solution of the root model.
C2_BoundBelowIntegralSolutions ==
  (Returned /\ result.best_bound # Inf)
    => \A x \in IntegralPoints : result.best_bound <= ObjOf(x)

\* C3: a returned tuple with an incumbent has bestBound <= bestObjective and a
\* gap that is not negative.
C3_BoundBelowIncumbent ==
  (Returned /\ result.best_objective # Inf)
    => /\ result.best_bound <= result.best_objective
       /\ result.gap[1] >= 0 /\ result.gap[2] > 0

\* C3 witness: a return on time expiry, with an incumbent and a pending
\* frontier whose bound is strictly below it.
C3_Witness ==
  /\ Returned /\ stack # <<>>
  /\ result.best_objective # Inf
  /\ result.best_bound < result.best_objective
  /\ result.gap[1] > 0

\* C4: when the loop ended with the stack empty and an incumbent exists, the
\* returned bestBound equals bestObjective and the gap is exactly 0.
C4_ZeroGapOnExhaustion ==
  (Returned /\ stack = <<>> /\ result.best_objective # Inf)
    => result.best_bound = result.best_objective /\ result.gap = GapZero

\* C4 witness: an exhausted search of a branched tree with an incumbent.
C4_Witness ==
  /\ Returned /\ stack = <<>> /\ result.best_objective # Inf
  /\ nodes_explored >= 3
  /\ result.gap = GapZero

\* C5: an iteration whose node was solved to optimality with an objective >=
\* the incumbent's at the pop only pops: nothing is pushed, the incumbent is
\* kept and no table gets a new or changed entry.
C5_PrunedNodeNotExpanded ==
  [][(Iterated /\ last'.status = "OPTIMAL" /\ last'.obj >= best_objective)
       => /\ stack' = Popped
          /\ best_objective' = best_objective
          /\ best_solution' = best_solution
          /\ active_int_nodes' = active_int_nodes
          /\ SubTable(active_nodes', active_nodes)]_vars

\* C5 witness: a node solved to optimality with an objective >= the
\* incumbent's was popped while an incumbent existed.
C5_Witness ==
  /\ last.status = "OPTIMAL" /\ last.before # Inf /\ last.obj >= last.before
  /\ last.kind = "pruned"

\* C7: a return without any accepted incumbent has bestObjective = +inf and
\* gap = +inf (also when bestBound is +inf).
C7_NoIncumbent ==
  (Returned /\ best_solution = <<>>)
    => result.best_objective = Inf /\ result.gap = GapInf

\* C7 witness: the stack was exhausted over several nodes, none accepted.
C7_Witness ==
  /\ Returned /\ best_solution = <<>> /\ stack = <<>>
  /\ nodes_explored >= 3
  /\ result.best_bound = Inf /\ result.gap = GapInf

\* C8: an iteration whose oracle status is not OPTIMAL only pops: no child is
\* pushed, incumbent and bestObjective are kept, no table gets a new or changed
\* entry, and control is back at the loop head.
C8_NonOptimalDiscarded ==
  [][(Iterated /\ last'.status \in {"INFEASIBLE", "TIME_LIMIT"})
       => /\ stack' = Popped
          /\ best_objective' = best_objective
          /\ best_solution' = best_solution
          /\ active_int_nodes' = active_int_nodes
          /\ SubTable(active_nodes', active_nodes)
          /\ pc' = "loop"]_vars

\* C8 witness: an infeasible node was discarded while an incumbent existed and
\* other entries were still on the stack.
C8_Witness ==
  /\ last.status = "INFEASIBLE" /\ last.kind = "notopt"
  /\ pc = "loop" /\ stack # <<>>
  /\ best_objective # Inf

\* C9: with time_limit = 0 at most one node is explored, and a return has either
\* no incumbent and an infinite gap, or a result from the root node alone.
C9_ZeroTimeLimit ==
  time_limit = 0
    => /\ nodes_explored <= 1
       /\ Returned =>
            \/ result.best_objective = Inf /\ result.gap = GapInf
            \/ result.nodes_explored = 1 /\ last.node = 1

\* C9 witness: a return under time_limit = 0.
C9_Witness ==
  Returned /\ time_limit = 0 /\ result.nodes_explored <= 1 /\ stack # <<>>

IntegralOptima(m) ==
  {r.objVal : r \in {q \in Optimize(m) :
                       /\ q.status = "OPTIMAL"
                       /\ \A i \in Vars : ~(tolerance < q.x[i] /\ q.x[i] < One - tolerance)}}

\* C11: bestObjective never increases, and a step that changes the incumbent or
\* bestObjective is the iteration of a popped node whose relaxation is OPTIMAL
\* with a solution without fractional variable and an objective strictly below
\* bestObjective, which becomes the new bestObjective.
C11_IncumbentStrictlyImproves ==
  [][/\ best_objective' <= best_objective
     /\ (best_objective' # best_objective \/ best_solution' # best_solution)
          => /\ Iterated /\ stack' = Popped
             /\ last'.status = "OPTIMAL" /\ last'.kind = "integral"
             /\ last'.obj \in IntegralOptima(Top.model)
             /\ last'.obj < best_objective
             /\ best_objective' = last'.obj
             /\ best_solution' = <<[lb |-> Top.model.lb, ub |-> Top.model.ub]>>]_vars

\* C11 witness: an incumbent was replaced by a strictly better one.
C11_Witness ==
  /\ last.kind = "integral" /\ last.before # Inf
  /\ best_objective = last.obj /\ best_objective < last.before

\* C12: the relaxation objective of an explored node other than the root whose
\* status is OPTIMAL is >= the relaxation objective of the node that pushed it.
C12_MonotoneBound ==
  (last.status = "OPTIMAL" /\ last.node # 1) => last.obj >= last.pobj

\* C12 witness: a child at depth two was solved to optimality with an objective
\* strictly above its parent's.
C12_Witness ==
  /\ last.status = "OPTIMAL" /\ last.node > 3
  /\ last.pobj # -Inf /\ last.obj > last.pobj

\* The search as a function of the root model i, the tolerance and the oracle's
\* rule alone: a state is the list of the pending nodes' bounds and the best
\* objective; RefStep is one step of depth-first branch and bound, left first
RefObj(i, x) == SumOver(Vars, [v \in Vars |-> i.cost[v] * x[v]]) + One * i.offset

RefSolve(i, mode, m) ==
  LET V == VertexTable[i.kind, m.lb, m.ub]
      best == MinOf({RefObj(i, x) : x \in V}, Inf)
      O == {x \in V : RefObj(i, x) = best}
  IN IF V = {} THEN [status |-> "INFEASIBLE", objVal |-> Inf, x |-> [v \in Vars |-> 0]]
     ELSE [status |-> "OPTIMAL", objVal |-> best,
           x |-> CHOOSE x \in O : \A y \in O \ {x} :
                   IF mode = "first" THEN LexLess(x, y) ELSE LexLess(y, x)]

RefStep(D, i, mode, tol) ==
  LET m == D.stk[Len(D.stk)]
      rest == SubSeq(D.stk, 1, Len(D.stk) - 1)
      r == RefSolve(i, mode, m)
      F == {v \in Vars : tol < r.x[v] /\ r.x[v] < One - tol}
      f == CHOOSE v \in F : \A w \in F : v <= w
  IN IF r.status # "OPTIMAL" \/ r.objVal >= D.best THEN [stk |-> rest, best |-> D.best]
     ELSE IF F = {} THEN [stk |-> rest, best |-> r.objVal]
     ELSE [stk |-> rest \o <<[lb |-> [m.lb EXCEPT ![f] = One], ub |-> m.ub],
                             [lb |-> m.lb, ub |-> [m.ub EXCEPT ![f] = 0]]>>,
           best |-> D.best]

\* The states of the search from D on, until no node is pending
RECURSIVE RefTrace(_, _, _, _)
RefTrace(D, i, mode, tol) ==
  IF D.stk = <<>> THEN <<D>>
  ELSE <<D>> \o RefTrace(RefStep(D, i, mode, tol), i, mode, tol)

RefStart == [stk |-> <<[lb |-> RootModel.lb, ub |-> RootModel.ub]>>, best |-> Inf]

RefTable ==
  [i \in Instances, mode \in OracleModes \ {"any"}, tol \in Tolerances |->
     RefTrace(RefStart, i, mode, tol)] @@ <<>>  \* tabulated once

\* C13: under a deterministic oracle, after k iterations the bounds of the
\* pending nodes (in stack order) and bestObjective are those of the k-th state
\* of a search that depends on the root model, the tolerance and the oracle's
\* rule only, whatever ids the copies got and whatever the clock showed; so any
\* two such runs pop the same nodes and return the same bestObjective.
C13_DeterministicDriver ==
  (oracle # "any" /\ pc # "idle") =>
    LET T == RefTable[inst, oracle, tolerance]
        D == T[nodes_explored + 1]
    IN /\ nodes_explored + 1 <= Len(T)
       /\ [j \in DOMAIN stack |-> [lb |-> stack[j].model.lb, ub |-> stack[j].model.ub]] = D.stk
       /\ best_objective = D.best
       /\ Returned => result.best_objective = D.best

\* C13 witness: a run under a deterministic oracle that exhausted a tree of at
\* least seven nodes, in which a copy got the id of a freed model.
C13_Witness ==
  /\ oracle # "any" /\ Returned /\ stack = <<>>
  /\ result.nodes_explored >= 7 /\ reuses >= 1
  /\ result.best_objective # Inf

C15_ChildrenTightenOneBound ==
  [][(Iterated /\ last'.kind = "branched")
       => LET cur == Top.model
              v == last'.frac
              n == Len(stack)
              R == stack'[n].model
              L == stack'[n + 1].model
          IN /\ Len(stack') = n + 1
             /\ SubSeq(stack', 1, n - 1) = Popped
             /\ v \in Vars /\ cur.lb[v] = 0 /\ cur.ub[v] = One
             /\ R.lb = [cur.lb EXCEPT ![v] = One] /\ R.ub = cur.ub
             /\ L.ub = [cur.ub EXCEPT ![v] = 0] /\ L.lb = cur.lb
             /\ Cardinality({cur.id, R.id, L.id}) = 3
             /\ {R.id, L.id} \cap ModelIds(Popped) = {}
             /\ best_solution' = best_solution
             /\ best_objective' = best_objective]_vars

\* C15 witness: a node at depth >= 1 has branched while an incumbent existed and
\* other entries were on the stack.
C15_Witness ==
  /\ last.kind = "branched" /\ last.node # 1
  /\ Len(stack) >= 3 /\ best_solution # <<>>

\* Model m lies in the subtree of the left sibling of the right child r: within
\* r's bounds except that r's branching variable is fixed to 0
InLeftSiblingSubtree(m, r) ==
  /\ \A i \in Vars \ {r.var} : r.lb[i] <= m.lb[i] /\ m.ub[i] <= r.ub[i]
  /\ m.ub[r.var] = 0

\* C16: a branching iteration leaves the right child directly below the left
\* child on top of the stack; the node popped by the iteration that follows a
\* branching one is the left child of the node that branched; and every node of
\* the subtree of a pending right child's left sibling lies above that right
\* child on the stack, so none is left when the right child is popped.
C16_DepthFirstLeftFirst ==
  /\ [][(Iterated /\ last'.kind = "branched")
          => /\ stack'[Len(stack)].model.side = "right"
             /\ stack'[Len(stack) + 1].model.side = "left"
             /\ stack'[Len(stack)].model.parent = Top.model.node
             /\ stack'[Len(stack) + 1].model.parent = Top.model.node]_vars
  /\ [][(Iterated /\ last.kind = "branched")
          => Top.model.side = "left" /\ Top.model.parent = last.node]_vars
  /\ [][(Iterated /\ Top.model.side = "right")
          => \A j \in DOMAIN stack : ~InLeftSiblingSubtree(stack[j].model, Top.model)]_vars
  /\ [](\A i, j \in DOMAIN stack :
           (stack[i].model.side = "right"
              /\ InLeftSiblingSubtree(stack[j].model, stack[i].model)) => j > i)

\* C16 witness: a right child was popped after its left sibling and at least
\* two more nodes of the left sibling's subtree had been created and popped.
C16_Witness ==
  /\ last.kind \in {"integral", "pruned", "notopt"}
  /\ last.node % 2 = 0
  /\ nextNode >= last.node + 4
  /\ \A j \in DOMAIN stack : stack[j].model.node < last.node

\* C17: an iteration starts only while the clock, and the reading at the loop
\* head, are below time_limit, so an oracle call that ends at or after the
\* deadline is the last one and the next step leaves the loop with the stack as
\* it is; a node popped before the deadline whose relaxation is OPTIMAL and
\* better than the incumbent becomes the incumbent or gets both children
\* pushed, whatever the time at the end of its oracle call.
C17_SoftDeadline ==
  /\ [][Iterated => clock < time_limit /\ last'.popAt < time_limit]_vars
  /\ [][(pc = "loop" /\ clock >= time_limit) => (pc' # "loop" /\ stack' = stack)]_vars
  /\ [][(Iterated /\ last'.status = "OPTIMAL" /\ last'.obj < best_objective)
          => \/ best_objective' = last'.obj /\ best_solution' # <<>>
                  /\ stack' = Popped
             \/ Len(stack') = Len(stack) + 1 /\ last'.kind = "branched"]_vars

\* C17 witness: a node popped before the deadline has pushed its two children
\* although its oracle call ended at or after the deadline.
C17_Witness ==
  /\ pc = "loop" /\ last.kind = "branched"
  /\ last.popAt < time_limit /\ clock >= time_limit
  /\ Len(stack) >= 2

\* C18: the budget of each oracle call lies between 0 and time_limit, is
\* max(time_limit - elapsed, 0) for an elapsed time between the reading at the
\* loop head and the end of the call, and is not above the budget of the call
\* before.
C18_RemainingBudget ==
  /\ [](0 <= last.budget /\ last.budget <= time_limit)
  /\ [][Iterated => /\ Max(time_limit - clock', 0) <= last'.budget
                    /\ last'.budget <= Max(time_limit - last'.popAt, 0)]_vars
  /\ [][(Iterated /\ last.kind # "none") => last'.budget <= last.budget]_vars

\* C18 witness: a second or later node got a budget of 0, below a positive
\* time_limit.
C18_Witness ==
  /\ nodes_explored >= 2 /\ time_limit >= 1
  /\ last.popAt < time_limit /\ last.budget = 0

\* C19: the returned bestBound is the least value of the two tables together;
\* when both are empty it equals bestObjective, which is then +inf.
C19_BestBoundIsTableMinimum ==
  Returned =>
    LET B == Values(active_int_nodes) \cup Values(active_nodes)
    IN IF B = {}
         THEN result.best_bound = result.best_objective /\ result.best_objective = Inf
         ELSE result.best_bound \in B /\ \A b \in B : result.best_bound <= b

\* C19 witness: a return with both tables filled, the bound coming from the
\* frontier table.
C19_Witness ==
  /\ Returned /\ active_nodes # <<>> /\ active_int_nodes # <<>>
  /\ result.best_bound \notin Values(active_int_nodes)
  /\ result.best_bound \in Values(active_nodes)

\* C20: nodes_explored is the number of nodes created and no longer on the stack
\* (the stack holds each pending node once); the stack changes only in an
\* iteration, which counts one node, removes that node from the stack for good
\* and ends in one of the four outcomes; the returned count is nodes_explored.
C20_NodesExploredCountsPops ==
  /\ [](pc # "idle" =>
          /\ nodes_explored + Len(stack) = nextNode - 1
          /\ \A i, j \in DOMAIN stack :
                stack[i].model.node = stack[j].model.node => i = j
          /\ \A i \in DOMAIN stack : stack[i].model.node < nextNode
          /\ Returned => result.nodes_explored = nodes_explored)
  /\ [][Iterated => stack' # stack]_vars
  /\ [][stack' # stack
          => /\ Iterated
             /\ SubSeq(stack', 1, Len(stack) - 1) = SubSeq(stack, 1, Len(stack) - 1)
             /\ \A j \in DOMAIN stack' : stack'[j].model.node # Top.model.node
             /\ last'.node = Top.model.node
             /\ last'.kind \in {"notopt", "pruned", "integral", "branched"}]_vars

\* C20 witness: a return after at least five pops, the last node discarded as
\* not OPTIMAL, with nodes still pending.
C20_Witness ==
  /\ Returned /\ result.nodes_explored >= 5
  /\ last.kind = "notopt" /\ stack # <<>>

\* C21: after every completed loop iteration the keys of active_nodes are the
\* tags of the stack entries, and the entry under the tag of a pending node other
\* than the root is the relaxation objective of the node that pushed it.
C21_TableHoldsParentsOfPending ==
  (pc = "loop" /\ nodes_explored >= 1) =>
    /\ DOMAIN active_nodes = Tags(stack)
    /\ \A j \in DOMAIN stack :
         stack[j].model.node # 1 => active_nodes[stack[j].tag] = stack[j].pobj

\* The variables model m has fixed by branching: lb = ub
Fixed(m) == {i \in Vars : m.lb[i] = m.ub[i]}

\* 2^k
RECURSIVE Pow2(_)
Pow2(k) == IF k = 0 THEN 1 ELSE 2 * Pow2(k - 1)

\* C22: with 0 <= tolerance < 0.5, each branching on the path to a pending node
\* fixed a variable of its own (the node's depth is the number of its fixed
\* variables, and its own branching variable is among them), so no depth
\* exceeds the number of variables, and the number of nodes created, hence
\* nodes_explored, never exceeds 2^(n+1) - 1.
C22_NoVariableBranchedTwice ==
  (pc # "idle" /\ 2 * tolerance < One) =>
    /\ \A j \in DOMAIN stack :
         LET m == stack[j].model
         IN /\ Cardinality(Fixed(m)) = m.depth
            /\ m.depth <= NumVars
            /\ m.node # 1 => m.var \in Fixed(m)
    /\ nextNode - 1 <= Pow2(NumVars + 1) - 1
    /\ nodes_explored <= Pow2(NumVars + 1) - 1

\* C22 witness: a pending node at depth n, below n branchings on n different
\* variables.
C22_Witness ==
  \E j \in DOMAIN stack :
    stack[j].model.depth = NumVars /\ Fixed(stack[j].model) = Vars

\* C23: the driver never fails on the division of the gap: it does not raise,
\* and a returned tuple with an incumbent whose objective differs from bestBound
\* has a bestObjective other than 0.
C23_GapNeverDividesByZero ==
  /\ pc # "raised"
  /\ (Returned /\ result.best_objective # Inf
        /\ result.best_objective # result.best_bound) => result.best_objective # 0

----------------------------------------------------------------------------
(* Termination *)

\* The driver is a sequential program: while a step is possible, one is taken
FairSpec == Spec /\ WF_vars(Next)

\* The loop itself always ends: control leaves the while loop.
LoopEnds == <>(pc # "loop")

\* C6: the driver eventually leaves its loop and returns its tuple, and a
\* return before the time limit was reached is on an empty stack.
C6_TerminatesAndReturns ==
  /\ <>(pc = "returned")
  /\ [](Returned /\ clock < time_limit => stack = <<>>)

====
